---- MODULE Spec2Model ----
(***************************************************************************)
(* Library room booking (bu-book + admin-page): the bookings table, the    *)
(* submission / verification flow of bookingService.ts, the conflict       *)
(* checker of roomConflictChecker.ts as run from RoomAvailabilityList.tsx, *)
(* the administrator's status update of supabaseService.js, the time       *)
(* validation of utils/timeValidation.ts, and the page: Home's search form,*)
(* the room list, RoomBookingModal and the BookingButton's BookingModal.   *)
(*                                                                         *)
(* Every `await` of the source is one action: the database (or e-mail)     *)
(* operation takes effect and the code that follows it runs up to the next *)
(* await.  Callers interleave between awaits.                              *)
(*                                                                         *)
(* Times of day are minutes since midnight ("10:30" is 630): zero-padded   *)
(* HH:MM strings order the same way.  Instants are milliseconds, as        *)
(* Date.getTime() gives them.                                              *)
(***************************************************************************)
EXTENDS Integers, Sequences, FiniteSets, TLC

\* ------------------------------------------------------------------ bounds

\* Concurrent callers (browser sessions).
NumProcs == 2
\* Rows the bookings table can hold.
MaxBookings == 2
\* Seconds past the expiry of a code created at instant 0 that the clock reaches.
MaxLate == 1

\* Past-time notifications the page holds at most.
MaxNotifications == 1

\* Resolution of Math.random(): it gives k / RandomGrain, k in 0 .. RandomGrain - 1.
RandomGrain == 1000

\* ------------------------------------------------------- program constants

\* bookingService.ts:173  if (diffMinutes > 15)
ExpiryMinutes == 15
\* bookingService.ts:171  / (1000 * 60)
MsPerMinute == 1000 * 60

\* ------------------------------------------------------------------ inputs

Procs == 1..NumProcs
Rooms == {1, 2}
Dates == {"2025-06-01", "2025-06-02"}

\* Home.calculateEndTime: a Date set to the start time (minutes since
\* midnight), setMinutes(minutes + durationMinutes), and the time of day of
\* the result as HH:MM.
CalculateEndTime(startTime, durationMinutes) ==
    (startTime + durationMinutes) % (24 * 60)

\* The TimeSelection handleSearch builds.
TimeSelection(date, startTime, durationMinutes) ==
    [date |-> date, start_time |-> startTime,
     end_time |-> CalculateEndTime(startTime, durationMinutes),
     duration_minutes |-> durationMinutes]

NoSelection == [date |-> "", start_time |-> 0, end_time |-> 0, duration_minutes |-> 0]

\* The time selections a search puts in the room list:
\* [10:00,11:00) [10:30,11:30) [11:00,12:00)
Selections ==
    { TimeSelection("2025-06-01", s, 60) : s \in {600, 630, 660} }
    \cup { TimeSelection("2025-06-02", 600, 60) }

\* generateVerificationCode: Math.floor(Math.random() * 900000) + 100000
GenerateVerificationCode(k) == ((k * 900000) \div RandomGrain) + 100000

\* The digits of Number.prototype.toString(36) and their upper-case forms.
Base36Digits ==
    <<"0", "1", "2", "3", "4", "5", "6", "7", "8", "9", "a", "b", "c", "d", "e",
      "f", "g", "h", "i", "j", "k", "l", "m", "n", "o", "p", "q", "r", "s", "t",
      "u", "v", "w", "x", "y", "z">>
UpperCaseDigits ==
    <<"0", "1", "2", "3", "4", "5", "6", "7", "8", "9", "A", "B", "C", "D", "E",
      "F", "G", "H", "I", "J", "K", "L", "M", "N", "O", "P", "Q", "R", "S", "T",
      "U", "V", "W", "X", "Y", "Z">>

\* The first n digits after the point of r / RandomGrain written in base 36;
\* the digits end where the value is reached exactly.
RECURSIVE Base36Fraction(_, _)
Base36Fraction(r, n) ==
    IF r = 0 \/ n = 0 THEN << >>
    ELSE <<Base36Digits[((r * 36) \div RandomGrain) + 1]>>
            \o Base36Fraction((r * 36) % RandomGrain, n - 1)

\* (k / RandomGrain).toString(36), as far as substring(2, 10) reads it: "0" for
\* zero, else "0." and the digits.  (A value that is not reached exactly is
\* taken to be written with eight digits or more.)
ToString36(k) ==
    IF k = 0 THEN <<"0">> ELSE <<"0", ".">> \o Base36Fraction(k, 8)

\* str.substring(2, 10): the characters at (zero-based) 2 to 9 that exist.
Substring2To10(str) ==
    IF Len(str) <= 2 THEN << >>
    ELSE SubSeq(str, 3, IF Len(str) < 10 THEN Len(str) ELSE 10)

ToUpperCase(str) ==
    [i \in 1..Len(str) |->
        IF \E j \in 1..36 : Base36Digits[j] = str[i]
        THEN UpperCaseDigits[CHOOSE j \in 1..36 : Base36Digits[j] = str[i]]
        ELSE str[i]]

\* generateConfirmationCode with Math.random() = k / RandomGrain: a string is
\* the sequence of its characters.
GenerateConfirmationCode(k) == ToUpperCase(Substring2To10(ToString36(k)))

\* What the two Math.random() draws of one submission can come to: the least
\* and the greatest draw for the verification code.
RandomDraws ==
    { [booking_reference |-> GenerateConfirmationCode(1),
       verification_code |-> GenerateVerificationCode(0)],
      [booking_reference |-> GenerateConfirmationCode(RandomGrain - 1),
       verification_code |-> GenerateVerificationCode(RandomGrain - 1)] }

\* Draws over the range of Math.random(): 0, 1/8, 1/2, and the least and the
\* greatest value next to the ends.
EveryDraw ==
    { [booking_reference |-> GenerateConfirmationCode(k),
       verification_code |-> GenerateVerificationCode(j)] :
        k \in {0, 1, RandomGrain \div 8, RandomGrain \div 2, RandomGrain - 1},
        j \in {0, RandomGrain - 1} }

\* Codes a user can type into the verification step.
Codes == { d.verification_code : d \in RandomDraws }

\* The instants the clock is sampled at: 0, then 14:59, 15:00, 15:01, ... after it
Instants ==
    {0} \cup { ExpiryMinutes * MsPerMinute + 1000 * k : k \in -1..MaxLate }

\* Outcomes of one call of the hosted database: {data}, {error}, or a thrown
\* network exception.
DbOutcomes == {"ok", "error", "throw"}

\* Status values the administrator's update is called with.
AdminStatuses == {"cancelled", "confirmed", "active"}

\* The rooms table with its joined building (read only here).
RoomTable ==
    [r \in Rooms |->
        [name |-> IF r = 1 THEN "Room 101" ELSE "Room 202",
         building_name |-> IF r = 1 THEN "Mugar Memorial Library" ELSE "Pardee Library"]]

UserEmail(p) == IF p = 1 THEN "ann@bu.edu" ELSE IF p = 2 THEN "bob@bu.edu" ELSE "cy@bu.edu"

\* ------------------------------------------------ utils/timeValidation.ts

\* Instants are seconds since 2025-01-01T00:00:00Z here (toLocaleString drops
\* the milliseconds); a wall-clock reading is the seconds since 2025-01-01
\* 00:00:00 on that clock.
Hours(n) == n * 3600
Days(n) == n * 24 * 3600

\* The time zone settings of the machines the page runs on.
Zones == {"America/New_York", "America/Los_Angeles", "UTC"}

StandardOffset(z) ==
    CASE z = "America/New_York" -> Hours(-5)
      [] z = "America/Los_Angeles" -> Hours(-8)
      [] OTHER -> 0

\* US daylight time 2025: from 2025-03-09 02:00 standard time to 2025-11-02
\* 02:00 daylight time, as instants of zone z.
DstBegins(z) == Days(67) + Hours(2) - StandardOffset(z)
DstEnds(z) == Days(305) + Hours(2) - (StandardOffset(z) + Hours(1))

Offset(z, t) ==
    IF z # "UTC" /\ DstBegins(z) <= t /\ t < DstEnds(z)
    THEN StandardOffset(z) + Hours(1)
    ELSE StandardOffset(z)

\* date.toLocaleString("en-US", {timeZone: z}): the wall-clock reading of the
\* instant t in zone z.
ToWall(t, z) == t + Offset(z, t)

\* new Date(<wall-clock string>) and setFullYear/setHours: the instant whose
\* reading on the machine's own clock (zone z) is w.  A reading the clock
\* skips or shows twice is taken with the offset in force before the change.
FromWall(w, z) ==
    LET cands == { t \in {w - StandardOffset(z), w - StandardOffset(z) - Hours(1)} :
                     ToWall(t, z) = w }
    IN  IF cands = {} THEN w - StandardOffset(z)
        ELSE CHOOSE t \in cands : \A u \in cands : t <= u

\* Days from January 1st to the first of each month of 2025.
MonthStart == <<0, 31, 59, 90, 120, 151, 181, 212, 243, 273, 304, 334>>

\* selectedDate.split('-').map(Number) is <<year, month, day>> and
\* selectedTime.split(':').map(Number) is <<hours, minutes>>: the wall-clock
\* reading setFullYear(year, month - 1, day), setHours(hours, minutes, 0, 0)
\* leave (dates of 2025).
WallOf(selectedDate, selectedTime) ==
    Days(MonthStart[selectedDate[2]] + selectedDate[3] - 1)
        + Hours(selectedTime[1]) + 60 * selectedTime[2]

\* getCurrentEasternTime at instant t on a machine of zone z.
GetCurrentEasternTime(t, z) == FromWall(ToWall(t, "America/New_York"), z)

\* isPastTime(selectedDate, selectedTime) at instant t on a machine of zone z.
IsPastTime(selectedDate, selectedTime, t, z) ==
    LET currentEasternTime == GetCurrentEasternTime(t, z)
        selectedDateTime == FromWall(WallOf(selectedDate, selectedTime), z)
        selectedEasternTime == FromWall(ToWall(selectedDateTime, "America/New_York"), z)
    IN  selectedEasternTime <= currentEasternTime

\* The instants Search is clicked at: 2025-03-09 01:50 EST and 03:15 EDT,
\* 2025-06-01 09:00:30 EDT and 10:15:00 EDT, 2025-11-02 01:30 EDT and 01:30 EST.
SearchInstants ==
    { Days(67) + Hours(6) + 50 * 60, Days(67) + Hours(7) + 15 * 60,
      Days(151) + Hours(13) + 30, Days(151) + Hours(14) + 15 * 60,
      Days(305) + Hours(5) + 30 * 60, Days(305) + Hours(6) + 30 * 60 }

SearchDates == { <<2025, 3, 9>>, <<2025, 6, 1>>, <<2025, 11, 2>> }

\* The times asked about (the form's selects offer 08 to 22 and 00, 15, 30, 45;
\* isPastTime takes any).
SearchTimes ==
    { <<1, 30>>, <<1, 45>>, <<2, 30>>, <<3, 0>>, <<9, 0>>, <<9, 15>>, <<10, 0>> }

\* The form as the user has set it (defaultsOf: the machine whose untouched
\* defaults the form holds, if any).
Searches ==
    [instant : SearchInstants, selectedDate : SearchDates, selectedTime : SearchTimes,
     duration : {60}, defaultsOf : {"none"}]

NoSearch ==
    [instant |-> 0, selectedDate |-> <<2025, 1, 1>>, selectedTime |-> <<0, 0>>,
     duration |-> 60, defaultsOf |-> "none"]

NotAsked == [z \in Zones |-> [asked |-> FALSE, past |-> FALSE]]

\* ------------------------------------------------------------------- state

VARIABLES
    bookings,   \* the bookings table: a sequence of rows, a row's id is its index
    now,        \* the current instant (ms)
    outbox,     \* the e-mails handed to the dispatcher
    pc,         \* per caller: the await it is suspended at
    loc,        \* per caller: the locals of the call in progress
    ret,        \* per caller: the value the finished call resolved to
    search,     \* the search form of Home.tsx and the instant Search is clicked at
    pastTime,   \* per machine time zone: what isPastTime answered for the search
    ui          \* the page: the state of the mounted React components

vars == <<bookings, now, outbox, pc, loc, ret, search, pastTime, ui>>

NoRet == [success |-> FALSE, error |-> "", booking_id |-> 0]
Ok(id) == [success |-> TRUE, error |-> "", booking_id |-> id]
Fail(msg) == [success |-> FALSE, error |-> msg, booking_id |-> 0]

Loc0 ==
    [room_id |-> 0, date |-> "", start_time |-> 0, end_time |-> 0,
     duration_minutes |-> 0,
     booking_reference |-> << >>, verification_code |-> 0,
     bookingId |-> 0, stamp |-> 0,
     pending |-> {}, conflictStatuses |-> {}, errorsLogged |-> {}]

\* The page before a search: Home's timeSelection and notifications, the
\* list's conflictStatuses (statusesFor: the selection the statuses shown were
\* computed for; refreshCause: what called refreshConflicts last, the effect
\* of a new timeSelection or a modal's onSuccess), selectedRoom (0: no modal), RoomBookingModal's currentStep,
\* bookingId, errors.submit, verificationError and the call isSubmitting stands
\* for (modalTask, 0: none), and the BookingButton's modal: the call its
\* handleSubmit awaits (buttonTask) and the alert shown.
Ui0 ==
    [timeSelection |-> NoSelection, notifications |-> 0,
     conflictStatuses |-> {}, statusesFor |-> NoSelection, refreshCause |-> "",
     selectedRoom |-> 0, currentStep |-> "form", bookingId |-> 0,
     submitError |-> "", verificationError |-> "", modalTask |-> 0,
     buttonTask |-> 0, alert |-> ""]

Init ==
    /\ bookings = << >>
    /\ now = 0
    /\ outbox = {}
    /\ pc = [p \in Procs |-> "idle"]
    /\ loc = [p \in Procs |-> Loc0]
    /\ ret = [p \in Procs |-> NoRet]
    /\ search = NoSearch
    /\ pastTime = NotAsked
    /\ ui = Ui0

\* The call of p ends with value v.
Finish(p, v) ==
    /\ pc' = [pc EXCEPT ![p] = "done"]
    /\ ret' = [ret EXCEPT ![p] = v]

\* The caller has read the result and is free for another call.
Return(p) ==
    /\ pc[p] = "done"
    /\ pc' = [pc EXCEPT ![p] = "idle"]
    /\ loc' = [loc EXCEPT ![p] = Loc0]
    /\ ret' = [ret EXCEPT ![p] = NoRet]
    /\ UNCHANGED <<bookings, now, outbox, search, pastTime, ui>>

\* Time passes.
Tick ==
    /\ \E t \in Instants : t > now /\ now' = t
    /\ UNCHANGED <<bookings, outbox, pc, loc, ret, search, pastTime, ui>>

\* ------------------------------------------------- roomConflictChecker.ts

\* Qualifies without the verification_status filter.
QualifiesUnverified(b, roomId, bookingDate) ==
    /\ b.room_id = roomId
    /\ b.booking_date = bookingDate
    /\ b.status \in {"confirmed", "active"}

\* .eq('room_id').eq('booking_date').eq('verification_status','verified')
\* .in('status', ['confirmed','active'])
Qualifies(b, roomId, bookingDate) ==
    /\ b.room_id = roomId
    /\ b.booking_date = bookingDate
    /\ b.verification_status = "verified"
    /\ b.status \in {"confirmed", "active"}

\* TimeFilter that only matches a booking covering the whole selection.
TimeFilterCovering(b, sel) ==
    /\ b.start_time <= sel.start_time
    /\ b.end_time >= sel.end_time

\* and(start_time.lte.<end_time>, end_time.gte.<start_time>)
TimeFilter(b, sel) ==
    /\ b.start_time <= sel.end_time
    /\ b.end_time >= sel.start_time

\* The ids of the rows the query returns.
ConflictingBookings(rows, roomId, sel) ==
    { i \in DOMAIN rows : Qualifies(rows[i], roomId, sel.date) /\ TimeFilter(rows[i], sel) }

AvailableStatus(roomId) ==
    [room_id |-> roomId, available |-> TRUE, status |-> "available"]

\* The status built from conflictingBookings[0] (the message strings, which are
\* formatted from the same two times, are left out).
ConflictStatus(roomId, primaryConflict) ==
    [room_id |-> roomId, available |-> FALSE, status |-> "conflict",
     conflict_details |->
        [room_id |-> roomId,
         conflicting_booking |->
            [start_time |-> primaryConflict.start_time,
             end_time |-> primaryConflict.end_time,
             booking_reference |-> primaryConflict.booking_reference]]]

\* CheckRoomConflicts failing closed: a failed query makes the room unavailable.
CheckRoomConflictsFailClosed(rows, roomId, sel, outcome) ==
    IF outcome # "ok"
    THEN { [room_id |-> roomId, available |-> FALSE, status |-> "unavailable"] }
    ELSE IF ConflictingBookings(rows, roomId, sel) = {}
    THEN { AvailableStatus(roomId) }
    ELSE { ConflictStatus(roomId, rows[i]) : i \in ConflictingBookings(rows, roomId, sel) }

\* What checkRoomConflicts can resolve to.  The query has no ORDER BY, so
\* conflictingBookings[0] is any of the rows returned.
CheckRoomConflicts(rows, roomId, sel, outcome) ==
    IF outcome # "ok" \/ ConflictingBookings(rows, roomId, sel) = {}
    THEN { AvailableStatus(roomId) }
    ELSE { ConflictStatus(roomId, rows[i]) : i \in ConflictingBookings(rows, roomId, sel) }

\* --------------------------------------- RoomAvailabilityList.refreshConflicts

\* RefreshConflicts issuing the first room's query only, the rest to follow
\* one by one.
RefreshConflictsSerial(p, sel) ==
    /\ pc[p] = "idle"
    /\ pc' = [pc EXCEPT ![p] = "c_wait"]
    /\ loc' = [loc EXCEPT ![p] =
                 [Loc0 EXCEPT !.date = sel.date, !.start_time = sel.start_time,
                              !.end_time = sel.end_time,
                              !.duration_minutes = sel.duration_minutes,
                              !.pending = {1}]]
    /\ UNCHANGED <<bookings, now, outbox, ret, search, pastTime, ui>>

\* refreshConflicts: checkMultipleRoomConflicts issues one query per room of
\* the list, all before any is awaited.
RefreshConflicts(p, sel) ==
    /\ pc[p] = "idle"
    /\ pc' = [pc EXCEPT ![p] = "c_wait"]
    /\ loc' = [loc EXCEPT ![p] =
                 [Loc0 EXCEPT !.date = sel.date, !.start_time = sel.start_time,
                              !.end_time = sel.end_time,
                              !.duration_minutes = sel.duration_minutes,
                              !.pending = Rooms]]
    /\ UNCHANGED <<bookings, now, outbox, ret, search, pastTime, ui>>

TimeSelectionOf(l) ==
    [date |-> l.date, start_time |-> l.start_time, end_time |-> l.end_time,
     duration_minutes |-> l.duration_minutes]

\* ConflictQuery with a failed query rejecting the whole batch: every room of
\* the list is then shown available.
ConflictQueryRejectingAll(p, r, outcome) ==
    /\ pc[p] = "c_wait"
    /\ r \in loc[p].pending
    /\ IF outcome = "ok"
       THEN /\ \E res \in CheckRoomConflicts(bookings, r, TimeSelectionOf(loc[p]), outcome) :
                  loc' = [loc EXCEPT ![p].pending = @ \ {r},
                                     ![p].conflictStatuses = @ \cup {res}]
            /\ pc' = [pc EXCEPT ![p] = IF loc[p].pending = {r} THEN "list" ELSE "c_wait"]
       ELSE /\ loc' = [loc EXCEPT ![p].pending = {},
                                  ![p].conflictStatuses = { AvailableStatus(x) : x \in Rooms },
                                  ![p].errorsLogged = @ \cup {r}]
            /\ pc' = [pc EXCEPT ![p] = "list"]
    /\ UNCHANGED <<bookings, now, outbox, ret, search, pastTime, ui>>

\* One room's query completes (a failed one writes console.error for its
\* room); with the last one Promise.all resolves and
\* setConflictStatuses(conflicts) shows the room list.
ConflictQuery(p, r, outcome) ==
    /\ pc[p] = "c_wait"
    /\ r \in loc[p].pending
    /\ \E res \in CheckRoomConflicts(bookings, r, TimeSelectionOf(loc[p]), outcome) :
          loc' = [loc EXCEPT ![p].pending = @ \ {r},
                             ![p].conflictStatuses = @ \cup {res},
                             ![p].errorsLogged =
                                 IF outcome = "ok" THEN @ ELSE @ \cup {r}]
    /\ pc' = [pc EXCEPT ![p] = IF loc[p].pending = {r} THEN "list" ELSE "c_wait"]
    /\ UNCHANGED <<bookings, now, outbox, ret, search, pastTime, ui>>

\* finalStatus?.available !== false: the room is in the list's available part
\* and has a Select Room button.
ShownAvailable(statuses, r) ==
    \A s \in statuses : s.room_id = r => s.available

\* The user leaves the room list without booking.
LeaveList(p) ==
    /\ pc[p] = "list"
    /\ pc' = [pc EXCEPT ![p] = "idle"]
    /\ loc' = [loc EXCEPT ![p] = Loc0]
    /\ UNCHANGED <<bookings, now, outbox, ret, search, pastTime, ui>>

\* ------------------------------------------------------- bookingService.ts

\* Submissions in flight that have not inserted yet.
Submitting == { q \in Procs : pc[q] \in {"s_room", "s_insert"} }

\* handleSelectRoom, then RoomBookingModal.handleSubmitBooking calls
\* submitBookingRequest with the list's time selection: the two codes are
\* drawn and the room query is issued.
HandleSubmitBooking(p, r, draw) ==
    /\ pc[p] = "list"
    /\ ShownAvailable(loc[p].conflictStatuses, r)
    /\ Len(bookings) + Cardinality(Submitting) < MaxBookings
    /\ pc' = [pc EXCEPT ![p] = "s_room"]
    /\ loc' = [loc EXCEPT ![p].room_id = r,
                          ![p].booking_reference = draw.booking_reference,
                          ![p].verification_code = draw.verification_code]
    /\ UNCHANGED <<bookings, now, outbox, ret, search, pastTime, ui>>

\* error.message of a thrown network exception.
ThrownMessage == "Failed to fetch"

\* The room query resolves; on success the insert is issued with created_at
\* and updated_at stamped.
SubmitRoomLookup(p, outcome) ==
    /\ pc[p] = "s_room"
    /\ CASE outcome = "ok" ->
              /\ pc' = [pc EXCEPT ![p] = "s_insert"]
              /\ loc' = [loc EXCEPT ![p].stamp = now]
              /\ UNCHANGED ret
         [] outcome = "error" ->
              /\ Finish(p, Fail("Failed to fetch room details"))
              /\ UNCHANGED loc
         [] OTHER ->
              /\ Finish(p, Fail(ThrownMessage))
              /\ UNCHANGED loc
    /\ UNCHANGED <<bookings, now, outbox, search, pastTime, ui>>

\* The row submitBookingRequest inserts (columns no modelled code reads are
\* left out).
NewRow(p, l) ==
    [user_email |-> UserEmail(p),
     room_id |-> l.room_id,
     room_name |-> RoomTable[l.room_id].name,
     building_name |-> RoomTable[l.room_id].building_name,
     booking_date |-> l.date,
     start_time |-> l.start_time,
     end_time |-> l.end_time,
     duration_minutes |-> l.duration_minutes,
     status |-> "pending",
     verification_status |-> "pending",
     booking_reference |-> l.booking_reference,
     verification_code |-> l.verification_code,
     created_at |-> l.stamp,
     updated_at |-> l.stamp]

\* SubmitInsert as it would be behind a uniqueness constraint on room, date and
\* interval: the insert is refused when an overlapping row is in the table.
SubmitInsertExclusive(p, outcome) ==
    /\ pc[p] = "s_insert"
    /\ LET clash == \E i \in DOMAIN bookings :
                       /\ bookings[i].room_id = loc[p].room_id
                       /\ bookings[i].booking_date = loc[p].date
                       /\ bookings[i].start_time < loc[p].end_time
                       /\ loc[p].start_time < bookings[i].end_time
       IN  CASE outcome = "ok" /\ ~clash ->
                  /\ bookings' = Append(bookings, NewRow(p, loc[p]))
                  /\ loc' = [loc EXCEPT ![p].bookingId = Len(bookings) + 1]
                  /\ pc' = [pc EXCEPT ![p] = "s_mail"]
                  /\ UNCHANGED ret
             [] OTHER ->
                  /\ Finish(p, Fail("Failed to submit booking request"))
                  /\ UNCHANGED <<bookings, loc>>
    /\ UNCHANGED <<now, outbox, search, pastTime, ui>>

\* SubmitInsert with a failed insert leaving its row behind.
SubmitInsertLeavingRow(p, outcome) ==
    /\ pc[p] = "s_insert"
    /\ CASE outcome = "ok" ->
              /\ bookings' = Append(bookings, NewRow(p, loc[p]))
              /\ loc' = [loc EXCEPT ![p].bookingId = Len(bookings) + 1]
              /\ pc' = [pc EXCEPT ![p] = "s_mail"]
              /\ UNCHANGED ret
         [] outcome = "error" ->
              /\ bookings' = Append(bookings, NewRow(p, loc[p]))
              /\ Finish(p, Fail("Failed to submit booking request"))
              /\ UNCHANGED loc
         [] OTHER ->
              /\ Finish(p, Fail(ThrownMessage))
              /\ UNCHANGED <<bookings, loc>>
    /\ UNCHANGED <<now, outbox, search, pastTime, ui>>

\* The insert resolves; on success the verification e-mail is issued.
SubmitInsert(p, outcome) ==
    /\ pc[p] = "s_insert"
    /\ CASE outcome = "ok" ->
              /\ bookings' = Append(bookings, NewRow(p, loc[p]))
              /\ loc' = [loc EXCEPT ![p].bookingId = Len(bookings) + 1]
              /\ pc' = [pc EXCEPT ![p] = "s_mail"]
              /\ UNCHANGED ret
         [] outcome = "error" ->
              /\ Finish(p, Fail("Failed to submit booking request"))
              /\ UNCHANGED <<bookings, loc>>
         [] OTHER ->
              /\ Finish(p, Fail(ThrownMessage))
              /\ UNCHANGED <<bookings, loc>>
    /\ UNCHANGED <<now, outbox, search, pastTime, ui>>

\* VerificationEmail with a code generated anew instead of the stored one.
VerificationEmailOtherCode(p, l) ==
    [kind |-> "verification", by |-> p,
     user_email |-> UserEmail(p),
     verification_code |-> GenerateVerificationCode(RandomGrain - 1),
     booking_reference |-> l.booking_reference]

VerificationEmail(p, l) ==
    [kind |-> "verification", by |-> p,
     user_email |-> UserEmail(p),
     verification_code |-> l.verification_code,
     booking_reference |-> l.booking_reference]

\* SubmitMail undoing the submission when the e-mail could not be sent.
SubmitMailRollingBack(p, sent) ==
    /\ pc[p] = "s_mail"
    /\ IF sent
       THEN /\ outbox' = outbox \cup {VerificationEmail(p, loc[p])}
            /\ Finish(p, Ok(loc[p].bookingId))
            /\ UNCHANGED bookings
       ELSE /\ bookings' = [bookings EXCEPT ![loc[p].bookingId].status = "cancelled"]
            /\ Finish(p, Fail("Failed to send verification email"))
            /\ UNCHANGED outbox
    /\ UNCHANGED <<now, loc, search, pastTime, ui>>

\* sendVerificationEmail resolves (true or false, never throwing) and the
\* submission returns success either way.
SubmitMail(p, sent) ==
    /\ pc[p] = "s_mail"
    /\ outbox' = IF sent THEN outbox \cup {VerificationEmail(p, loc[p])} ELSE outbox
    /\ Finish(p, Ok(loc[p].bookingId))
    /\ UNCHANGED <<bookings, now, loc, search, pastTime, ui>>


\* verifyBookingCode(bookingId, verificationCode) is called: the row query is
\* issued.
VerifyBookingCode(p, bookingId, verificationCode) ==
    /\ pc[p] = "idle"
    /\ pc' = [pc EXCEPT ![p] = "v_fetch"]
    /\ loc' = [loc EXCEPT ![p] =
                 [Loc0 EXCEPT !.bookingId = bookingId,
                              !.verification_code = verificationCode]]
    /\ UNCHANGED <<bookings, now, outbox, ret, search, pastTime, ui>>

\* Expired with the boundary instant counted as expired.
ExpiredAtBoundary(createdAt, t) ==
    t - createdAt >= ExpiryMinutes * MsPerMinute

\* diffMinutes > 15, with diffMinutes = (now - createdAt) / (1000 * 60)
Expired(createdAt, t) ==
    t - createdAt > ExpiryMinutes * MsPerMinute

\* Precondition with the code compared before the verified check.
PreconditionCodeFirst(rows, bookingId, verificationCode, outcome, t) ==
    IF outcome = "error" \/ bookingId \notin DOMAIN rows
        THEN "Booking not found"
    ELSE IF rows[bookingId].verification_code # verificationCode
        THEN "Invalid verification code"
    ELSE IF rows[bookingId].verification_status = "verified"
        THEN "Booking has already been verified"
    ELSE IF Expired(rows[bookingId].created_at, t)
        THEN "Verification code has expired"
    ELSE ""

\* Precondition without the already-verified check.
PreconditionNoVerifiedCheck(rows, bookingId, verificationCode, outcome, t) ==
    IF outcome = "error" \/ bookingId \notin DOMAIN rows
        THEN "Booking not found"
    ELSE IF rows[bookingId].verification_code # verificationCode
        THEN "Invalid verification code"
    ELSE IF Expired(rows[bookingId].created_at, t)
        THEN "Verification code has expired"
    ELSE ""

\* The four precondition checks on the row read, in the order of the code:
\* the message of the first that fails, "" when all pass.
Precondition(rows, bookingId, verificationCode, outcome, t) ==
    IF outcome = "error" \/ bookingId \notin DOMAIN rows
        THEN "Booking not found"
    ELSE IF rows[bookingId].verification_status = "verified"
        THEN "Booking has already been verified"
    ELSE IF rows[bookingId].verification_code # verificationCode
        THEN "Invalid verification code"
    ELSE IF Expired(rows[bookingId].created_at, t)
        THEN "Verification code has expired"
    ELSE ""

\* VerifyFetch with the attempt recorded on the row (updated_at stamped)
\* before the checks run.
VerifyFetchTouching(p, outcome) ==
    /\ pc[p] = "v_fetch"
    /\ LET failed == Precondition(bookings, loc[p].bookingId,
                                  loc[p].verification_code, outcome, now)
       IN  CASE outcome = "throw" ->
                  /\ Finish(p, Fail(ThrownMessage))
                  /\ UNCHANGED <<loc, bookings>>
             [] outcome # "throw" /\ failed # "" ->
                  /\ Finish(p, Fail(failed))
                  /\ bookings' = IF loc[p].bookingId \in DOMAIN bookings
                                 THEN [bookings EXCEPT ![loc[p].bookingId].updated_at = now]
                                 ELSE bookings
                  /\ UNCHANGED loc
             [] OTHER ->
                  /\ pc' = [pc EXCEPT ![p] = "v_update"]
                  /\ loc' = [loc EXCEPT ![p].stamp = now]
                  /\ UNCHANGED <<ret, bookings>>
    /\ UNCHANGED <<now, outbox, search, pastTime, ui>>

\* The row query resolves and the checks run; when all pass the update is
\* issued with updated_at stamped.
VerifyFetch(p, outcome) ==
    /\ pc[p] = "v_fetch"
    /\ LET failed == Precondition(bookings, loc[p].bookingId,
                                  loc[p].verification_code, outcome, now)
       IN  CASE outcome = "throw" ->
                  /\ Finish(p, Fail(ThrownMessage))
                  /\ UNCHANGED loc
             [] outcome # "throw" /\ failed # "" ->
                  /\ Finish(p, Fail(failed))
                  /\ UNCHANGED loc
             [] OTHER ->
                  /\ pc' = [pc EXCEPT ![p] = "v_update"]
                  /\ loc' = [loc EXCEPT ![p].stamp = now]
                  /\ UNCHANGED ret
    /\ UNCHANGED <<bookings, now, outbox, search, pastTime, ui>>

\* .update({status: 'confirmed', verification_status: 'verified', updated_at})
Confirmed(b, stamp) ==
    [b EXCEPT !.status = "confirmed",
              !.verification_status = "verified",
              !.updated_at = stamp]

\* VerifyUpdate with updateError not looked at: the call goes on to the
\* confirmation whether or not the update was applied.
VerifyUpdateUnchecked(p, outcome) ==
    /\ pc[p] = "v_update"
    /\ CASE outcome = "ok" ->
              /\ bookings' = [bookings EXCEPT ![loc[p].bookingId] =
                                Confirmed(@, loc[p].stamp)]
              /\ pc' = [pc EXCEPT ![p] = "v_refetch"]
              /\ UNCHANGED ret
         [] outcome = "error" ->
              /\ pc' = [pc EXCEPT ![p] = "v_refetch"]
              /\ UNCHANGED <<bookings, ret>>
         [] OTHER ->
              /\ Finish(p, Fail(ThrownMessage))
              /\ UNCHANGED bookings
    /\ UNCHANGED <<now, outbox, loc, search, pastTime, ui>>

\* The update resolves; on success the full row is queried for the e-mail.
VerifyUpdate(p, outcome) ==
    /\ pc[p] = "v_update"
    /\ CASE outcome = "ok" ->
              /\ bookings' = [bookings EXCEPT ![loc[p].bookingId] =
                                Confirmed(@, loc[p].stamp)]
              /\ pc' = [pc EXCEPT ![p] = "v_refetch"]
              /\ UNCHANGED ret
         [] outcome = "error" ->
              /\ Finish(p, Fail("Failed to confirm booking"))
              /\ UNCHANGED bookings
         [] OTHER ->
              /\ Finish(p, Fail(ThrownMessage))
              /\ UNCHANGED bookings
    /\ UNCHANGED <<now, outbox, loc, search, pastTime, ui>>

\* VerifyRefetch outside the try block: a thrown exception reaches the caller.
VerifyRefetchUncaught(p, outcome) ==
    /\ pc[p] = "v_refetch"
    /\ CASE outcome = "ok" ->
              /\ pc' = [pc EXCEPT ![p] = "v_mail"]
              /\ UNCHANGED ret
         [] outcome = "error" ->
              Finish(p, Ok(0))
         [] OTHER ->
              /\ pc' = [pc EXCEPT ![p] = "raised"]
              /\ UNCHANGED ret
    /\ UNCHANGED <<bookings, now, outbox, loc, search, pastTime, ui>>

\* The full-row query resolves: with the row the confirmation e-mail is
\* issued, without it the call returns success at once.
VerifyRefetch(p, outcome) ==
    /\ pc[p] = "v_refetch"
    /\ CASE outcome = "ok" ->
              /\ pc' = [pc EXCEPT ![p] = "v_mail"]
              /\ UNCHANGED ret
         [] outcome = "error" ->
              Finish(p, Ok(0))
         [] OTHER ->
              Finish(p, Fail(ThrownMessage))
    /\ UNCHANGED <<bookings, now, outbox, loc, search, pastTime, ui>>

\* The parameters sendBookingConfirmationEmail is called with, from fullBooking.
ConfirmationEmail(p, fullBooking) ==
    [kind |-> "confirmation", by |-> p,
     user_email |-> fullBooking.user_email,
     room_name |-> fullBooking.room_name,
     building_name |-> fullBooking.building_name,
     booking_date |-> fullBooking.booking_date,
     start_time |-> fullBooking.start_time,
     end_time |-> fullBooking.end_time,
     booking_reference |-> fullBooking.booking_reference]

\* sendBookingConfirmationEmail resolves and the call returns success.  (The
\* columns the e-mail carries are written once, by the insert, so the row is
\* read here as fullBooking held it.)
VerifyMail(p, sent) ==
    /\ pc[p] = "v_mail"
    /\ outbox' = IF sent
                 THEN outbox \cup {ConfirmationEmail(p, bookings[loc[p].bookingId])}
                 ELSE outbox
    /\ Finish(p, Ok(0))
    /\ UNCHANGED <<bookings, now, loc, search, pastTime, ui>>

\* ------------------------------------------- admin-page supabaseService.js

\* updateData = {status, updated_at}
StatusUpdated(b, status, stamp) ==
    [b EXCEPT !.status = status, !.updated_at = stamp]

\* updateBookingStatus(bookingId, status): one update, by the administrator.
UpdateBookingStatus(bookingId, status, outcome) ==
    /\ bookingId \in DOMAIN bookings
    /\ bookings' = IF outcome = "ok"
                   THEN [bookings EXCEPT ![bookingId] = StatusUpdated(@, status, now)]
                   ELSE bookings
    /\ UNCHANGED <<now, outbox, pc, loc, ret, search, pastTime, ui>>

\* ----------------------------------------------------- Home.handleSearch

\* date.toISOString().split('T')[0]: the UTC date of the instant t (2025).
IsoDate(t) ==
    LET n == t \div Days(1)
        m == CHOOSE k \in 1..12 :
                /\ MonthStart[k] <= n
                /\ k < 12 => n < MonthStart[k + 1]
    IN  <<2025, m, n - MonthStart[m] + 1>>

\* getCurrentTimeDefaults at instant t on a machine of zone z: getHours and
\* getMinutes read the machine's own clock; the result is
\* {currentHour, nextQuarter, defaultDate}.
GetCurrentTimeDefaults(t, z) ==
    LET reading == ToWall(t, z) % Days(1)
        currentHour == reading \div Hours(1)
        currentMinute == (reading % Hours(1)) \div 60
        nextDay == [currentHour |-> 8, nextQuarter |-> 0,
                    defaultDate |-> IsoDate(t + Days(1))]
    IN  IF currentHour >= 22 THEN nextDay
        ELSE IF currentHour < 8
        THEN [currentHour |-> 8, nextQuarter |-> 0, defaultDate |-> IsoDate(t)]
        ELSE IF currentMinute <= 15
        THEN [currentHour |-> currentHour, nextQuarter |-> 15, defaultDate |-> IsoDate(t)]
        ELSE IF currentMinute <= 30
        THEN [currentHour |-> currentHour, nextQuarter |-> 30, defaultDate |-> IsoDate(t)]
        ELSE IF currentMinute <= 45
        THEN [currentHour |-> currentHour, nextQuarter |-> 45, defaultDate |-> IsoDate(t)]
        ELSE IF currentHour + 1 >= 22 THEN nextDay
        ELSE [currentHour |-> currentHour + 1, nextQuarter |-> 0,
              defaultDate |-> IsoDate(t)]

\* Home renders for the first time on a machine of zone z: the form's
\* useState initialisers take the defaults.
RenderHome(z) ==
    /\ search.defaultsOf = "none"
    /\ pastTime = NotAsked
    /\ LET d == GetCurrentTimeDefaults(search.instant, z)
       IN  search' = [search EXCEPT !.selectedDate = d.defaultDate,
                                    !.selectedTime = <<d.currentHour, d.nextQuarter>>,
                                    !.defaultsOf = z]
    /\ UNCHANGED <<bookings, now, outbox, pc, loc, ret, pastTime, ui>>

\* handleSearch on a machine of zone z: isPastTime decides between the past
\* time alert and setTimeSelection.
AskPastTime(z) ==
    /\ ~pastTime[z].asked
    /\ pastTime' = [pastTime EXCEPT ![z] =
                      [asked |-> TRUE,
                       past |-> IsPastTime(search.selectedDate, search.selectedTime,
                                           search.instant, z)]]
    /\ UNCHANGED <<bookings, now, outbox, pc, loc, ret, search, ui>>

\* ------------------------------------------------------------------ the page

\* The page runs in a browser whose time zone is Eastern.
PageZone == "America/New_York"

\* The rooms of the buildings the list is given.
PageRooms == {1}

\* The string selectedDate holds: split('-').map(Number) of it is d.
DateString(d) ==
    CASE d = <<2025, 3, 9>> -> "2025-03-09"
      [] d = <<2025, 6, 1>> -> "2025-06-01"
      [] d = <<2025, 6, 2>> -> "2025-06-02"
      [] d = <<2025, 11, 2>> -> "2025-11-02"
      [] OTHER -> "2025-01-01"

\* No promise continuation is waiting to run: continuations run before the
\* next event or response is handled.
Settled == \A p \in Procs : pc[p] \notin {"list", "done"}

\* The form's onChange handlers: setSelectedDate, setSelectedHour,
\* setSelectedMinute, setDuration.  (The form is out of reach while the
\* modal's overlay is up.)
SetForm(date, time, duration) ==
    /\ Settled
    /\ ui.selectedRoom = 0
    /\ search' = [search EXCEPT !.selectedDate = date, !.selectedTime = time,
                                !.duration = duration, !.defaultsOf = "none"]
    /\ search' # search
    /\ UNCHANGED <<bookings, now, outbox, pc, loc, ret, pastTime, ui>>

\* checkMultipleRoomConflicts(roomIds, timeSelection) called by
\* refreshConflicts on task p: one query per room, all issued at once.
CheckMultipleRoomConflicts(p, sel) ==
    /\ pc[p] = "idle"
    /\ pc' = [pc EXCEPT ![p] = "c_wait"]
    /\ loc' = [loc EXCEPT ![p] =
                 [Loc0 EXCEPT !.date = sel.date, !.start_time = sel.start_time,
                              !.end_time = sel.end_time,
                              !.duration_minutes = sel.duration_minutes,
                              !.pending = PageRooms]]

\* handleSearch accepting a time in the past.
HandleSearchUnchecked(p) ==
    /\ Settled
    /\ ui.selectedRoom = 0
    /\ ui' = [ui EXCEPT !.timeSelection =
                 TimeSelection(DateString(search.selectedDate),
                               60 * search.selectedTime[1] + search.selectedTime[2],
                               search.duration),
                        !.refreshCause = "effect"]
    /\ CheckMultipleRoomConflicts(p, ui'.timeSelection)
    /\ UNCHANGED <<bookings, now, outbox, ret, search, pastTime>>

\* Home.handleSearch: a time isPastTime calls past adds the past-time error
\* notification and returns; otherwise setTimeSelection(selection), and the
\* list's effect runs refreshConflicts with the new selection (on task p).
HandleSearch(p) ==
    /\ Settled
    /\ ui.selectedRoom = 0
    /\ IF IsPastTime(search.selectedDate, search.selectedTime, search.instant, PageZone)
       THEN /\ ui.notifications < MaxNotifications
            /\ ui' = [ui EXCEPT !.notifications = @ + 1]
            /\ UNCHANGED <<pc, loc>>
       ELSE /\ ui' = [ui EXCEPT !.timeSelection =
                        TimeSelection(DateString(search.selectedDate),
                                      60 * search.selectedTime[1] + search.selectedTime[2],
                                      search.duration),
                               !.refreshCause = "effect"]
            /\ CheckMultipleRoomConflicts(p, ui'.timeSelection)
    /\ UNCHANGED <<bookings, now, outbox, ret, search, pastTime>>

\* refreshConflicts after the await: setConflictStatuses(conflicts).
SetConflictStatuses(p) ==
    /\ pc[p] = "list"
    /\ ui' = [ui EXCEPT !.conflictStatuses = loc[p].conflictStatuses,
                        !.statusesFor = TimeSelectionOf(loc[p])]
    /\ pc' = [pc EXCEPT ![p] = "idle"]
    /\ loc' = [loc EXCEPT ![p] = Loc0]
    /\ UNCHANGED <<bookings, now, outbox, ret, search, pastTime>>

\* handleSelectRoom on a room with a Select Room button: RoomBookingModal
\* mounts, in its first state.
HandleSelectRoom(r) ==
    /\ Settled
    /\ ui.timeSelection # NoSelection
    /\ ui.selectedRoom = 0
    /\ ShownAvailable(ui.conflictStatuses, r)
    /\ ui' = [ui EXCEPT !.selectedRoom = r]
    /\ UNCHANGED <<bookings, now, outbox, pc, loc, ret, search, pastTime>>

\* RoomBookingModal.handleSubmitBooking up to its await (the form is taken to
\* be valid): submitBookingRequest is called, on task p, with the room and
\* the time selection the modal was given.
SubmitBookingRequest(p, draw) ==
    /\ Settled
    /\ ui.selectedRoom # 0
    /\ ui.currentStep = "form"
    /\ ui.modalTask = 0
    /\ pc[p] = "idle"
    /\ Len(bookings) + Cardinality(Submitting) < MaxBookings
    /\ pc' = [pc EXCEPT ![p] = "s_room"]
    /\ loc' = [loc EXCEPT ![p] =
                 [Loc0 EXCEPT !.room_id = ui.selectedRoom,
                              !.date = ui.timeSelection.date,
                              !.start_time = ui.timeSelection.start_time,
                              !.end_time = ui.timeSelection.end_time,
                              !.duration_minutes = ui.timeSelection.duration_minutes,
                              !.booking_reference = draw.booking_reference,
                              !.verification_code = draw.verification_code]]
    /\ ui' = [ui EXCEPT !.modalTask = p]
    /\ UNCHANGED <<bookings, now, outbox, ret, search, pastTime>>

SubmitErrorMessage == "Failed to submit booking request. Please try again."

\* handleSubmitBooking after the await: success sets bookingId and the
\* verification step, anything else errors.submit.  (A modal closed meanwhile
\* is unmounted and its setState calls do nothing.)
BookingSubmitted(p) ==
    /\ pc[p] = "done"
    /\ loc[p].room_id # 0
    /\ ui.buttonTask # p
    /\ ui' = IF ui.modalTask # p THEN ui
             ELSE IF ret[p].success
             THEN [ui EXCEPT !.modalTask = 0, !.bookingId = ret[p].booking_id,
                             !.currentStep = "verification"]
             ELSE [ui EXCEPT !.modalTask = 0, !.submitError = SubmitErrorMessage]
    /\ pc' = [pc EXCEPT ![p] = "idle"]
    /\ loc' = [loc EXCEPT ![p] = Loc0]
    /\ ret' = [ret EXCEPT ![p] = NoRet]
    /\ UNCHANGED <<bookings, now, outbox, search, pastTime>>

\* RoomBookingModal.handleVerifyCode up to its await, with a code typed in.
HandleVerifyCode(p, verificationCode) ==
    /\ Settled
    /\ ui.selectedRoom # 0
    /\ ui.currentStep = "verification"
    /\ ui.modalTask = 0
    /\ pc[p] = "idle"
    /\ pc' = [pc EXCEPT ![p] = "v_fetch"]
    /\ loc' = [loc EXCEPT ![p] =
                 [Loc0 EXCEPT !.bookingId = ui.bookingId,
                              !.verification_code = verificationCode]]
    /\ ui' = [ui EXCEPT !.modalTask = p]
    /\ UNCHANGED <<bookings, now, outbox, ret, search, pastTime>>

\* handleVerifyCode after the await.
CodeVerified(p) ==
    /\ pc[p] = "done"
    /\ loc[p].room_id = 0
    /\ ui' = IF ui.modalTask # p THEN ui
             ELSE IF ret[p].success
             THEN [ui EXCEPT !.modalTask = 0, !.currentStep = "confirmed"]
             ELSE [ui EXCEPT !.modalTask = 0,
                             !.verificationError =
                                 IF ret[p].error # "" THEN ret[p].error
                                 ELSE "Invalid verification code"]
    /\ pc' = [pc EXCEPT ![p] = "idle"]
    /\ loc' = [loc EXCEPT ![p] = Loc0]
    /\ ret' = [ret EXCEPT ![p] = NoRet]
    /\ UNCHANGED <<bookings, now, outbox, search, pastTime>>

\* The Back to Form button of the verification step.
BackToForm ==
    /\ Settled
    /\ ui.selectedRoom # 0
    /\ ui.currentStep = "verification"
    /\ ui' = [ui EXCEPT !.currentStep = "form"]
    /\ UNCHANGED <<bookings, now, outbox, pc, loc, ret, search, pastTime>>

\* The modal unmounted: its state is gone.
ModalClosed(u) ==
    [u EXCEPT !.selectedRoom = 0, !.currentStep = "form", !.bookingId = 0,
              !.submitError = "", !.verificationError = "", !.modalTask = 0]

\* HandleClose refreshing the list at every step.
HandleCloseRefreshing(p) ==
    /\ Settled
    /\ ui.selectedRoom # 0
    /\ CheckMultipleRoomConflicts(p, ui.timeSelection)
    /\ ui' = [ModalClosed(ui) EXCEPT !.refreshCause = "onSuccess"]
    /\ UNCHANGED <<bookings, now, outbox, ret, search, pastTime>>

\* RoomBookingModal.handleClose (the x, the overlay; Cancel and the
\* confirmation's Close button come to the same): in the confirmed step
\* onSuccess(), which is handleCloseModal() and refreshConflicts() (on task
\* p), then onClose().
HandleClose(p) ==
    /\ Settled
    /\ ui.selectedRoom # 0
    /\ IF ui.currentStep = "confirmed"
       THEN /\ CheckMultipleRoomConflicts(p, ui.timeSelection)
            /\ ui' = [ModalClosed(ui) EXCEPT !.refreshCause = "onSuccess"]
       ELSE /\ ui' = ModalClosed(ui)
            /\ UNCHANGED <<pc, loc>>
    /\ UNCHANGED <<bookings, now, outbox, ret, search, pastTime>>

\* The slots BookingModal offers: starts 09:00 to 20:00 and ends 10:00 to
\* 21:00, on the hour.
SlotStarts == { 60 * h : h \in 9..20 }
SlotEnds == { 60 * (h + 1) : h \in 9..20 }

\* BookingModal.validateForm on the two times (the other fields are taken to
\* be filled in).
ValidateForm(startTime, endTime) == ~(startTime >= endTime)

\* BookingModal.handleSubmit up to its await: submitBookingRequest with
\* formData, whose duration_minutes is the initial 60.
HandleSubmit(p, r, date, startTime, endTime, draw) ==
    /\ Settled
    /\ ui.buttonTask = 0
    /\ ValidateForm(startTime, endTime)
    /\ pc[p] = "idle"
    /\ Len(bookings) + Cardinality(Submitting) < MaxBookings
    /\ pc' = [pc EXCEPT ![p] = "s_room"]
    /\ loc' = [loc EXCEPT ![p] =
                 [Loc0 EXCEPT !.room_id = r, !.date = date,
                              !.start_time = startTime, !.end_time = endTime,
                              !.duration_minutes = 60,
                              !.booking_reference = draw.booking_reference,
                              !.verification_code = draw.verification_code]]
    /\ ui' = [ui EXCEPT !.buttonTask = p, !.alert = ""]
    /\ UNCHANGED <<bookings, now, outbox, ret, search, pastTime>>

SuccessAlert ==
    "Booking request submitted successfully! You will receive a confirmation email shortly."

\* handleSubmit after the await: onSuccess(), which is BookingButton's
\* handleBookingSuccess (the value submitBookingRequest resolved to is not
\* looked at, and it never rejects).
HandleBookingSuccess(p) ==
    /\ pc[p] = "done"
    /\ ui.buttonTask = p
    /\ ui' = [ui EXCEPT !.buttonTask = 0, !.alert = SuccessAlert]
    /\ pc' = [pc EXCEPT ![p] = "idle"]
    /\ loc' = [loc EXCEPT ![p] = Loc0]
    /\ ret' = [ret EXCEPT ![p] = NoRet]
    /\ UNCHANGED <<bookings, now, outbox, search, pastTime>>

\* A response arrives for a call of the page: of one room's conflict query,
\* of an await of submitBookingRequest (the insert with outcome o), of an
\* await of verifyBookingCode.
QueryResponse(p, r) == Settled /\ ConflictQuery(p, r, "ok")

SubmitResponse(p, o) ==
    /\ Settled
    /\ \/ SubmitRoomLookup(p, "ok")
       \/ SubmitInsert(p, o)
       \/ SubmitMail(p, TRUE)

VerifyResponse(p) ==
    /\ Settled
    /\ \/ VerifyFetch(p, "ok")
       \/ VerifyUpdate(p, "ok")
       \/ VerifyRefetch(p, "ok")
       \/ VerifyMail(p, TRUE)

\* ------------------------------------------------------------ specification

BookingIds == 1..MaxBookings

\* The calls of the callers P, with inputs drawn from the universe U.
Calls(P, U) ==
    \/ \E p \in P : Return(p)
    \/ \E p \in P, sel \in U.sels : RefreshConflicts(p, sel)
    \/ \E p \in P, r \in Rooms, o \in U.reads : ConflictQuery(p, r, o)
    \/ \E p \in P : LeaveList(p)
    \/ \E p \in P, r \in U.rooms, d \in U.draws : HandleSubmitBooking(p, r, d)
    \/ \E p \in P, o \in U.outs : SubmitRoomLookup(p, o)
    \/ \E p \in P, o \in U.outs : SubmitInsert(p, o)
    \/ \E p \in P, sent \in U.mails : SubmitMail(p, sent)
    \/ \E p \in P, b \in BookingIds, c \in U.codes : VerifyBookingCode(p, b, c)
    \/ \E p \in P, o \in U.outs : VerifyFetch(p, o)
    \/ \E p \in P, o \in U.outs : VerifyUpdate(p, o)
    \/ \E p \in P, o \in U.outs : VerifyRefetch(p, o)
    \/ \E p \in P, sent \in U.mails : VerifyMail(p, sent)

\* The administrator's calls.
Admin(U) ==
    \E b \in BookingIds, s \in U.admin, o \in U.outs : UpdateBookingStatus(b, s, o)

OneSelection == { TimeSelection("2025-06-01", 600, 60) }
OneDraw == { d \in RandomDraws : d.verification_code = GenerateVerificationCode(0) }

\* One caller, the administrator and the clock: the verification flow with
\* every outcome of every database call.
VerifyUniverse ==
    [sels |-> OneSelection, rooms |-> {1}, draws |-> OneDraw, codes |-> Codes,
     reads |-> {"ok"}, outs |-> DbOutcomes, mails |-> BOOLEAN, admin |-> {"cancelled"}]

Next == Calls({1}, VerifyUniverse) \/ Admin(VerifyUniverse) \/ Tick

Spec == Init /\ [][Next]_vars

\* One caller and the administrator over every room, date and interval, the
\* clock standing still: the conflict checker over the tables the flows build.
ConflictUniverse ==
    [sels |-> Selections, rooms |-> Rooms, draws |-> RandomDraws, codes |-> Codes,
     reads |-> DbOutcomes, outs |-> {"ok"}, mails |-> {TRUE}, admin |-> AdminStatuses]

ConflictNext == Calls({1}, ConflictUniverse) \/ Admin(ConflictUniverse)

ConflictSpec == Init /\ [][ConflictNext]_vars

\* All callers at once on one room, date and interval.
RaceUniverse ==
    [sels |-> OneSelection, rooms |-> {1}, draws |-> RandomDraws, codes |-> Codes,
     reads |-> {"ok"}, outs |-> {"ok"}, mails |-> {TRUE}, admin |-> {}]

RaceNext == Calls(Procs, RaceUniverse)

RaceSpec == Init /\ [][RaceNext]_vars

\* One caller submitting and verifying with the two codes drawn over the
\* range of Math.random().
DrawUniverse ==
    [sels |-> OneSelection, rooms |-> {1}, draws |-> EveryDraw, codes |-> Codes,
     reads |-> {"ok"}, outs |-> {"ok"}, mails |-> {TRUE}, admin |-> {}]

DrawNext == Calls({1}, DrawUniverse)

DrawSpec == Init /\ [][DrawNext]_vars

\* The page in one browser, opened at 2025-06-01 09:00:30 Eastern with the
\* form at its defaults: searches, the room list, RoomBookingModal and the
\* BookingButton's modal, their calls running as tasks.
PageInstant == Days(151) + Hours(13) + 30

UiInit ==
    /\ bookings = << >>
    /\ now = 0
    /\ outbox = {}
    /\ pc = [p \in Procs |-> "idle"]
    /\ loc = [p \in Procs |-> Loc0]
    /\ ret = [p \in Procs |-> NoRet]
    /\ LET d == GetCurrentTimeDefaults(PageInstant, PageZone)
       IN  search = [instant |-> PageInstant, selectedDate |-> d.defaultDate,
                     selectedTime |-> <<d.currentHour, d.nextQuarter>>,
                     duration |-> 60, defaultsOf |-> PageZone]
    /\ pastTime = NotAsked
    /\ ui = Ui0

\* What the user sets the form to: 08:00 for an hour (past), 09:15 for an
\* hour, 22:00 for three hours.
FormSettings == { <<8, 0, 60>>, <<9, 15, 60>>, <<22, 0, 180>> }

\* What the user picks in BookingModal's two selects.
PickedStarts == { s \in SlotStarts : s <= 600 }
PickedEnds == { e \in SlotEnds : e \in {600, 720} }

UiNext ==
    \/ \E f \in FormSettings : SetForm(<<2025, 6, 1>>, <<f[1], f[2]>>, f[3])
    \/ \E p \in Procs : HandleSearch(p)
    \/ \E p \in Procs : SetConflictStatuses(p)
    \/ \E r \in PageRooms : HandleSelectRoom(r)
    \/ \E p \in Procs, d \in OneDraw : SubmitBookingRequest(p, d)
    \/ \E p \in Procs : BookingSubmitted(p)
    \/ \E p \in Procs, c \in Codes : HandleVerifyCode(p, c)
    \/ \E p \in Procs : CodeVerified(p)
    \/ BackToForm
    \/ \E p \in Procs : HandleClose(p)
    \/ \E p \in Procs, r \in PageRooms : QueryResponse(p, r)
    \/ \E p \in Procs, o \in {"ok", "error"} : SubmitResponse(p, o)
    \/ \E p \in Procs : VerifyResponse(p)

UiSpec == UiInit /\ [][UiNext]_vars

\* The BookingButton's modal alone, over the starts and ends picked.
ButtonNext ==
    \/ \E p \in Procs, s \in PickedStarts, e \in PickedEnds, d \in RandomDraws :
          HandleSubmit(p, 1, "2025-06-01", s, e, d)
    \/ \E p \in Procs, o \in {"ok", "error"} : SubmitResponse(p, o)
    \/ \E p \in Procs : HandleBookingSuccess(p)

ButtonSpec == Init /\ [][ButtonNext]_vars

\* One search, with its date, time and instant, made on machines of every
\* time zone setting.
TimeInit ==
    /\ bookings = << >>
    /\ now = 0
    /\ outbox = {}
    /\ pc = [p \in Procs |-> "idle"]
    /\ loc = [p \in Procs |-> Loc0]
    /\ ret = [p \in Procs |-> NoRet]
    /\ search \in Searches
    /\ pastTime = NotAsked
    /\ ui = Ui0

TimeNext ==
    \/ \E z \in Zones : RenderHome(z)
    \/ \E z \in Zones : AskPastTime(z)

TimeSpec == TimeInit /\ [][TimeNext]_vars

\* ------------------------------------------------------------------ claims

\* Half-open intervals [s1,e1) and [s2,e2) overlap.
Overlap(s1, e1, s2, e2) == s1 < e2 /\ s2 < e1

VerifiedConfirmed(b) ==
    b.verification_status = "verified" /\ b.status = "confirmed"

\* C1: no two bookings that are both verified and confirmed are for the same
\* room and date with overlapping [start_time, end_time) intervals.
C1_NoDoubleBooking ==
    \A i, j \in DOMAIN bookings :
        ( /\ i # j
          /\ VerifiedConfirmed(bookings[i]) /\ VerifiedConfirmed(bookings[j])
          /\ bookings[i].room_id = bookings[j].room_id
          /\ bookings[i].booking_date = bookings[j].booking_date )
        => ~Overlap(bookings[i].start_time, bookings[i].end_time,
                    bookings[j].start_time, bookings[j].end_time)

\* The request of the submission p is in.
SameRequest(p, q) ==
    /\ loc[p].room_id = loc[q].room_id
    /\ loc[p].date = loc[q].date
    /\ Overlap(loc[p].start_time, loc[p].end_time, loc[q].start_time, loc[q].end_time)

\* C2: nothing between the conflict check and the insert serialises two
\* submissions: the insert of a caller that was shown the room as available
\* adds its row whatever rows the table already holds, also one for the same
\* room, date and interval.
C2_InsertNotSerialised ==
    [][ \A p \in Procs :
          (pc[p] = "s_insert" /\ pc'[p] # "s_insert")
          => /\ ShownAvailable(loc[p].conflictStatuses, loc[p].room_id)
             /\ pc'[p] = "s_mail"
             /\ Len(bookings') = Len(bookings) + 1
             /\ bookings'[Len(bookings')].room_id = loc[p].room_id
             /\ bookings'[Len(bookings')].booking_date = loc[p].date
             /\ bookings'[Len(bookings')].start_time = loc[p].start_time
             /\ bookings'[Len(bookings')].end_time = loc[p].end_time ]_vars

\* Two callers were both shown the room as available for the same room, date
\* and interval, and both their rows are in the table.
C2_BothInserted ==
    \E p, q \in Procs :
        /\ p # q
        /\ pc[p] = "s_mail" /\ pc[q] = "s_mail"
        /\ SameRequest(p, q)
        /\ AvailableStatus(loc[p].room_id) \in loc[p].conflictStatuses
        /\ AvailableStatus(loc[q].room_id) \in loc[q].conflictStatuses
        /\ loc[p].bookingId \in DOMAIN bookings
        /\ loc[q].bookingId \in DOMAIN bookings
        /\ loc[p].bookingId # loc[q].bookingId

\* The messages of the four precondition failures of verifyBookingCode.
PreconditionMessages ==
    { "Booking not found", "Booking has already been verified",
      "Invalid verification code", "Verification code has expired" }

\* What verifyBookingCode resolves to when the row query itself fails: its
\* {error} is reported as a missing booking, a thrown exception by its message.
QueryFailureMessages == { "Booking not found", ThrownMessage }

\* The row query of p's verifyBookingCode resolves in this step.
FetchStep(p) == pc[p] = "v_fetch" /\ pc'[p] # "v_fetch"

\* 15 minutes in milliseconds.
Window == 15 * 60 * 1000

\* C3: verifyBookingCode reports the first failing precondition, in the
\* order exists, not verified, code equal, not expired: each message is given
\* exactly when the checks before it pass and its own fails (so a wrong code
\* on a verified booking is never "Invalid verification code", and a wrong
\* code on an expired booking is never "expired").
C3_FirstFailureWins ==
    [][ \A p \in Procs :
          FetchStep(p) =>
            LET id == loc[p].bookingId
                code == loc[p].verification_code
                exists == id \in DOMAIN bookings
                msg == ret'[p].error
                passed == pc'[p] = "v_update"
            IN  /\ ~exists => (~passed /\ msg \in QueryFailureMessages)
                /\ msg = "Booking has already been verified"
                     => (exists /\ bookings[id].verification_status = "verified")
                /\ msg = "Invalid verification code"
                     => /\ exists
                        /\ bookings[id].verification_status # "verified"
                        /\ bookings[id].verification_code # code
                /\ msg = "Verification code has expired"
                     => /\ exists
                        /\ bookings[id].verification_status # "verified"
                        /\ bookings[id].verification_code = code
                        /\ now - bookings[id].created_at > Window
                /\ passed
                     => /\ exists
                        /\ bookings[id].verification_status # "verified"
                        /\ bookings[id].verification_code = code
                        /\ now - bookings[id].created_at <= Window
                /\ ~passed
                     => /\ pc'[p] = "done"
                        /\ ~ret'[p].success
                        /\ msg \in PreconditionMessages \cup {ThrownMessage} ]_vars

\* A call with a wrong code on a booking that is already verified has returned
\* "already verified".
C3_WrongCodeOnVerified ==
    \E p \in Procs :
        /\ pc[p] = "done"
        /\ ret[p] = Fail("Booking has already been verified")
        /\ loc[p].bookingId \in DOMAIN bookings
        /\ bookings[loc[p].bookingId].verification_status = "verified"
        /\ bookings[loc[p].bookingId].verification_code # loc[p].verification_code

\* C4: with the correct code on an existing unverified booking the checks
\* pass up to and including 15 minutes after created_at and fail with
\* "Verification code has expired" after it; with any code, a call whose row
\* query resolves after the 15 minutes never issues the update, and a row
\* becomes verified only through a call whose checks ran within the 15 minutes.
C4_ExpiryBoundary ==
    [][ /\ \A p \in Procs :
             (FetchStep(p) /\ loc[p].bookingId \in DOMAIN bookings) =>
               LET b == bookings[loc[p].bookingId]
                   elapsed == now - b.created_at
                   msg == ret'[p].error
                   passed == pc'[p] = "v_update"
               IN  /\ elapsed > Window => ~passed
                   /\ (b.verification_status # "verified"
                        /\ b.verification_code = loc[p].verification_code)
                      => /\ elapsed <= Window
                            => (passed \/ (pc'[p] = "done" /\ msg \in QueryFailureMessages))
                         /\ elapsed > Window
                            => /\ pc'[p] = "done"
                               /\ ~ret'[p].success
                               /\ msg \in {"Verification code has expired"}
                                            \cup QueryFailureMessages
        /\ \A i \in DOMAIN bookings :
             (bookings[i].verification_status # "verified"
               /\ bookings'[i].verification_status = "verified")
             => \E p \in Procs :
                   /\ pc[p] = "v_update"
                   /\ loc[p].bookingId = i
                   /\ loc[p].stamp - bookings[i].created_at <= Window ]_vars

\* One booking was verified 14 min 59 s after it was created, and a call with
\* the correct code on another, 15 min 1 s after it was created, has returned
\* "expired".
C4_ExpiredWithCorrectCode ==
    \E p \in Procs, i \in DOMAIN bookings :
        /\ pc[p] = "done"
        /\ ret[p] = Fail("Verification code has expired")
        /\ loc[p].bookingId \in DOMAIN bookings
        /\ bookings[loc[p].bookingId].verification_code = loc[p].verification_code
        /\ bookings[loc[p].bookingId].verification_status = "pending"
        /\ now - bookings[loc[p].bookingId].created_at = Window + 1000
        /\ bookings[i].verification_status = "verified"
        /\ bookings[i].updated_at - bookings[i].created_at = Window - 1000

\* C5: a verification code is single-use.  The call whose update is applied
\* turns the row confirmed/verified, and a call only returns success after
\* that; a verified row stays verified; and every call whose row query
\* resolves on a verified row, whatever code it was given, ends with
\* success=false and "Booking has already been verified" (or the report of a
\* failed query) and leaves the table and the outbox as they were.
C5_SingleUse ==
    [][ /\ \A p \in Procs :
             /\ (FetchStep(p) /\ loc[p].bookingId \in DOMAIN bookings
                   /\ bookings[loc[p].bookingId].verification_status = "verified")
                => /\ pc'[p] = "done"
                   /\ ~ret'[p].success
                   /\ ret'[p].error \in {"Booking has already been verified"}
                                          \cup QueryFailureMessages
                   /\ bookings' = bookings
                   /\ outbox' = outbox
             /\ (pc[p] = "v_update" /\ pc'[p] = "v_refetch")
                => /\ bookings[loc[p].bookingId].verification_status = "pending"
                   /\ bookings'[loc[p].bookingId].verification_status = "verified"
                   /\ bookings'[loc[p].bookingId].status = "confirmed"
             /\ (pc[p] \in {"v_refetch", "v_mail"} /\ pc'[p] = "done" /\ ret'[p].success)
                => bookings[loc[p].bookingId].verification_status = "verified"
        /\ \A i \in DOMAIN bookings :
             bookings[i].verification_status = "verified"
             => bookings'[i].verification_status = "verified" ]_vars

\* The first call with the correct code succeeded (its confirmation e-mail is
\* in the outbox), and a second call with the same, correct code has returned
\* "already verified".
C5_SecondCallRefused ==
    \E p \in Procs :
        /\ pc[p] = "done"
        /\ ret[p] = Fail("Booking has already been verified")
        /\ loc[p].bookingId \in DOMAIN bookings
        /\ bookings[loc[p].bookingId].verification_code = loc[p].verification_code
        /\ bookings[loc[p].bookingId].verification_status = "verified"
        /\ \E e \in outbox :
              /\ e.kind = "confirmation"
              /\ e.booking_reference = bookings[loc[p].bookingId].booking_reference

\* The confirmation e-mails of an outbox.
Confirmations(box) == { e \in box : e.kind = "confirmation" }

\* C6: a verifyBookingCode that ends with a precondition failure (not found,
\* already verified, wrong code, expired) has changed no row of the bookings
\* table (status, verification_status, updated_at and all else) and has
\* dispatched no e-mail: it ends in the step its row query resolves in, that
\* step leaves table and outbox as they were, and so does the step that
\* issued the query.
C6_FailureChangesNothing ==
    [][ \A p \in Procs :
          /\ (pc[p] # "done" /\ pc'[p] = "done"
                /\ ~ret'[p].success /\ ret'[p].error \in PreconditionMessages)
             => /\ pc[p] = "v_fetch"
                /\ bookings' = bookings
                /\ outbox' = outbox
          /\ (pc[p] = "idle" /\ pc'[p] = "v_fetch")
             => /\ bookings' = bookings
                /\ outbox' = outbox ]_vars

\* A call with a wrong code has returned "Invalid verification code"; the row
\* is pending/pending with updated_at as the insert stamped it, and no
\* confirmation e-mail has been dispatched.
C6_WrongCodeRowUntouched ==
    \E p \in Procs :
        /\ pc[p] = "done"
        /\ ret[p] = Fail("Invalid verification code")
        /\ loc[p].bookingId \in DOMAIN bookings
        /\ bookings[loc[p].bookingId].verification_code # loc[p].verification_code
        /\ bookings[loc[p].bookingId].status = "pending"
        /\ bookings[loc[p].bookingId].verification_status = "pending"
        /\ bookings[loc[p].bookingId].updated_at = bookings[loc[p].bookingId].created_at
        /\ now > bookings[loc[p].bookingId].created_at
        /\ Confirmations(outbox) = {}

ListedFor(p, r) == { st \in loc[p].conflictStatuses : st.room_id = r }

\* C8: whatever checkRoomConflicts reports as the conflict for a room, date
\* and interval is a booking of that room and that date whose
\* verification_status is verified and whose status is confirmed or active;
\* a booking with verification_status pending is never the one reported,
\* whatever its status.
C8_ConflictSourceQualifies ==
    \A roomId \in Rooms, sel \in Selections, outcome \in DbOutcomes :
        \A res \in CheckRoomConflicts(bookings, roomId, sel, outcome) :
            res.status = "conflict"
            => /\ ~res.available
               /\ \E i \in DOMAIN bookings :
                     /\ bookings[i].room_id = roomId
                     /\ bookings[i].booking_date = sel.date
                     /\ bookings[i].verification_status = "verified"
                     /\ bookings[i].status \in {"confirmed", "active"}
                     /\ res.conflict_details.conflicting_booking =
                          [start_time |-> bookings[i].start_time,
                           end_time |-> bookings[i].end_time,
                           booking_reference |-> bookings[i].booking_reference]

\* Two bookings of one room and date both overlap the interval searched: one
\* is unverified though its status is confirmed or active, the other is
\* verified; the room list reports the verified one and nothing else.
C8_PendingNotReported ==
    \E p \in Procs, i, j \in DOMAIN bookings :
        /\ pc[p] = "list"
        /\ bookings[i].verification_status = "pending"
        /\ bookings[i].status \in {"confirmed", "active"}
        /\ bookings[j].verification_status = "verified"
        /\ bookings[j].status \in {"confirmed", "active"}
        /\ bookings[i].room_id = bookings[j].room_id
        /\ bookings[i].booking_date = loc[p].date
        /\ bookings[j].booking_date = loc[p].date
        /\ bookings[i].booking_reference # bookings[j].booking_reference
        /\ Overlap(bookings[i].start_time, bookings[i].end_time,
                   loc[p].start_time, loc[p].end_time)
        /\ Overlap(bookings[j].start_time, bookings[j].end_time,
                   loc[p].start_time, loc[p].end_time)
        /\ ListedFor(p, bookings[j].room_id) =
             { ConflictStatus(bookings[j].room_id, bookings[j]) }

\* C9: a booking whose status is cancelled is not a row the conflict query
\* returns, for any room, date and interval, after any step that follows
\* (the administrator here only ever sets cancelled).
C9_CancelledStaysOut ==
    [][ \A i \in DOMAIN bookings :
          bookings[i].status = "cancelled"
          => \A roomId \in Rooms, sel \in Selections :
                i \notin ConflictingBookings(bookings', roomId, sel) ]_vars

\* The qualifying bookings of a room on a date.
QualifyingOn(roomId, date) ==
    { i \in DOMAIN bookings :
        /\ bookings[i].room_id = roomId
        /\ bookings[i].booking_date = date
        /\ bookings[i].verification_status = "verified"
        /\ bookings[i].status \in {"confirmed", "active"} }

\* C10: when a room has exactly one qualifying booking [s2,e2) on a date, a
\* query for an interval [s1,e1) of that date with s1 < e2 and s2 < e1
\* resolves to available=false, status 'conflict', with that booking's
\* start_time, end_time and booking_reference in conflict_details.
C10_OverlapReported ==
    \A roomId \in Rooms, sel \in Selections, i \in DOMAIN bookings :
        ( /\ QualifyingOn(roomId, sel.date) = {i}
          /\ sel.start_time < bookings[i].end_time
          /\ bookings[i].start_time < sel.end_time )
        => CheckRoomConflicts(bookings, roomId, sel, "ok") =
             { [room_id |-> roomId, available |-> FALSE, status |-> "conflict",
                conflict_details |->
                   [room_id |-> roomId,
                    conflicting_booking |->
                       [start_time |-> bookings[i].start_time,
                        end_time |-> bookings[i].end_time,
                        booking_reference |-> bookings[i].booking_reference]]] }

\* The room's only qualifying booking of the date is [10:00,11:00); the list
\* for [10:30,11:30) reports the room in conflict with it.
C10_HalfHourOverlap ==
    \E p \in Procs, i \in DOMAIN bookings :
        /\ pc[p] = "list"
        /\ loc[p].start_time = 630 /\ loc[p].end_time = 690
        /\ QualifyingOn(bookings[i].room_id, loc[p].date) = {i}
        /\ bookings[i].start_time = 600 /\ bookings[i].end_time = 660
        /\ \E st \in ListedFor(p, bookings[i].room_id) :
              /\ ~st.available
              /\ st.status = "conflict"
              /\ st.conflict_details.conflicting_booking.start_time = 600
              /\ st.conflict_details.conflicting_booking.end_time = 660
              /\ st.conflict_details.conflicting_booking.booking_reference =
                   bookings[i].booking_reference

\* C11: overlap is decided on half-open intervals: checkRoomConflicts reports
\* a conflict exactly when some qualifying booking [s2,e2) of the room and date
\* has s1 < e2 and s2 < e1 for the interval [s1,e1) asked about, so an interval
\* that only touches a qualifying booking at a boundary is reported available.
C11_HalfOpenOverlap ==
    \A roomId \in Rooms, sel \in Selections :
        \A res \in CheckRoomConflicts(bookings, roomId, sel, "ok") :
            res.status = "conflict"
            <=> \E i \in QualifyingOn(roomId, sel.date) :
                   Overlap(sel.start_time, sel.end_time,
                           bookings[i].start_time, bookings[i].end_time)

\* C12: checkRoomConflicts fails open.  When the bookings query returns an
\* error or throws, the call resolves (the batch goes on to its next await or
\* to the list) to {room_id, available: true, status: 'available'} for that
\* room, whatever bookings the table holds.
C12_FailsOpen ==
    [][ /\ \A roomId \in Rooms, sel \in Selections, outcome \in {"error", "throw"} :
             CheckRoomConflicts(bookings, roomId, sel, outcome) =
                { [room_id |-> roomId, available |-> TRUE, status |-> "available"] }
        /\ \A p \in Procs :
             \A r \in loc'[p].errorsLogged \ loc[p].errorsLogged :
                /\ pc[p] = "c_wait" /\ r \in loc[p].pending
                /\ pc'[p] \in {"c_wait", "list"}
                /\ loc'[p].conflictStatuses = loc[p].conflictStatuses \cup
                      { [room_id |-> r, available |-> TRUE, status |-> "available"] } ]_vars

\* The query for a room failed while the room has a qualifying booking that
\* overlaps the interval searched, and the list shows the room as available.
C12_FailedQueryShownAvailable ==
    \E p \in Procs, i \in DOMAIN bookings :
        /\ pc[p] = "list"
        /\ bookings[i].room_id \in loc[p].errorsLogged
        /\ i \in QualifyingOn(bookings[i].room_id, loc[p].date)
        /\ Overlap(bookings[i].start_time, bookings[i].end_time,
                   loc[p].start_time, loc[p].end_time)
        /\ ListedFor(p, bookings[i].room_id) = { AvailableStatus(bookings[i].room_id) }

\* C13: checkMultipleRoomConflicts resolves with exactly one result per room
\* asked about, each what checkRoomConflicts gives for that room alone: a
\* room's query that completes adds that room's result and touches no other
\* room's, a failed one makes its own room available and no other, in
\* whatever order the queries complete, and the list is shown when, and only
\* when, every room has its result.
C13_OneResultPerRoom ==
    [][ \A p \in Procs :
          /\ (pc[p] = "c_wait" /\ loc'[p] # loc[p]) =>
                \E r \in loc[p].pending :
                   LET others(l) == { st \in l.conflictStatuses : st.room_id # r }
                       own == { st \in loc'[p].conflictStatuses : st.room_id = r }
                   IN  /\ loc'[p].pending = loc[p].pending \ {r}
                       /\ others(loc'[p]) = others(loc[p])
                       /\ Cardinality(own) = 1
                       /\ IF r \in loc'[p].errorsLogged
                          THEN own = { AvailableStatus(r) }
                          ELSE own \subseteq
                                 CheckRoomConflicts(bookings, r, TimeSelectionOf(loc[p]), "ok")
                       /\ loc'[p].errorsLogged \ {r} = loc[p].errorsLogged
                       /\ pc'[p] = IF loc'[p].pending = {} THEN "list" ELSE "c_wait"
          /\ pc'[p] = "list" =>
                /\ loc'[p].pending = {}
                /\ { st.room_id : st \in loc'[p].conflictStatuses } = Rooms
                /\ Cardinality(loc'[p].conflictStatuses) = Cardinality(Rooms) ]_vars

\* One room's query failed and that room is shown available, while the other
\* room, whose query came back, is shown in conflict with its qualifying
\* booking.
C13_OneFailedOtherCorrect ==
    \E p \in Procs, a \in Rooms, i \in DOMAIN bookings :
        /\ pc[p] = "list"
        /\ a \in loc[p].errorsLogged
        /\ ListedFor(p, a) = { AvailableStatus(a) }
        /\ bookings[i].room_id # a
        /\ bookings[i].room_id \notin loc[p].errorsLogged
        /\ i \in QualifyingOn(bookings[i].room_id, loc[p].date)
        /\ ListedFor(p, bookings[i].room_id) =
             { ConflictStatus(bookings[i].room_id, bookings[i]) }

\* C14: checkMultipleRoomConflicts fans out.  The step that calls it issues
\* the query of every room before any result is in; from then on the set of
\* queries outstanding only shrinks (none is started after another has
\* completed), and the call resolves, showing the list, only when none is
\* outstanding.
C14_FanOut ==
    [][ \A p \in Procs :
          /\ (pc[p] = "idle" /\ pc'[p] = "c_wait")
             => /\ loc'[p].pending = Rooms
                /\ loc'[p].conflictStatuses = {}
          /\ pc[p] # "idle" => loc'[p].pending \subseteq loc[p].pending
          /\ (pc[p] = "c_wait" /\ pc'[p] # "c_wait")
             => /\ pc'[p] = "list"
                /\ loc'[p].pending = {}
          /\ (pc[p] = "c_wait" /\ loc'[p].pending # {}) => pc'[p] = "c_wait" ]_vars

\* The query of room 2 has completed while that of room 1, issued before it,
\* is still outstanding.
C14_LaterQueryCompletedFirst ==
    \E p \in Procs :
        /\ pc[p] = "c_wait"
        /\ loc[p].pending = {1}
        /\ ListedFor(p, 2) # {}
        /\ ListedFor(p, 1) = {}

\* The verification e-mails of an outbox.
Verifications(box) == { e \in box : e.kind = "verification" }

\* The awaits of submitBookingRequest.
SubmitAwaits == {"s_room", "s_insert", "s_mail"}

\* C15: a submitBookingRequest that succeeds has written exactly one new row,
\* in its insert step and in no other: status pending, verification_status
\* pending, a verification_code in 100000..999999, created_at the instant
\* stamped when the insert was issued, and the id returned is that row's.
\* A verification e-mail is dispatched only by a call whose insert has
\* succeeded, to the submitted address, with the verification_code and
\* booking_reference stored in its row.
C15_SubmitEffects ==
    [][ /\ \A d \in RandomDraws : d.verification_code \in 100000..999999
        /\ \A p \in Procs :
             /\ (pc[p] = "s_insert" /\ pc'[p] = "s_mail")
                => /\ Len(bookings') = Len(bookings) + 1
                   /\ \A i \in DOMAIN bookings : bookings'[i] = bookings[i]
                   /\ loc'[p].bookingId = Len(bookings')
                   /\ LET b == bookings'[Len(bookings')]
                      IN  /\ b.status = "pending"
                          /\ b.verification_status = "pending"
                          /\ b.verification_code \in 100000..999999
                          /\ b.verification_code = loc[p].verification_code
                          /\ b.booking_reference = loc[p].booking_reference
                          /\ b.user_email = UserEmail(p)
                          /\ b.created_at = loc[p].stamp
                          /\ b.updated_at = b.created_at
                          /\ b.created_at <= now
             /\ (pc[p] \in {"list"} \cup SubmitAwaits /\ pc'[p] # pc[p]
                   /\ ~(pc[p] = "s_insert" /\ pc'[p] = "s_mail"))
                => bookings' = bookings
             /\ (pc[p] \in SubmitAwaits /\ pc'[p] = "done" /\ ret'[p].success)
                => /\ pc[p] = "s_mail"
                   /\ ret'[p].booking_id = loc[p].bookingId
                   /\ loc[p].bookingId \in DOMAIN bookings
        /\ \A e \in Verifications(outbox') \ Verifications(outbox) :
             /\ pc[e.by] = "s_mail"
             /\ loc[e.by].bookingId \in DOMAIN bookings
             /\ LET b == bookings[loc[e.by].bookingId]
                IN  /\ e.user_email = UserEmail(e.by)
                    /\ e.user_email = b.user_email
                    /\ e.verification_code = b.verification_code
                    /\ e.booking_reference = b.booking_reference ]_vars

\* A submission made after the clock had moved on has returned success with
\* the id of its row: the row is pending/pending with created_at stamped, and
\* the verification e-mail with the row's code and reference is in the outbox.
C15_SubmittedAndMailed ==
    \E p \in Procs :
        /\ pc[p] = "done"
        /\ ret[p].success
        /\ ret[p].booking_id \in DOMAIN bookings
        /\ ret[p].booking_id = Len(bookings)
        /\ LET b == bookings[ret[p].booking_id]
           IN  /\ b.status = "pending" /\ b.verification_status = "pending"
               /\ b.created_at > 0
               /\ \E e \in Verifications(outbox) :
                     /\ e.user_email = b.user_email
                     /\ e.verification_code = b.verification_code
                     /\ e.booking_reference = b.booking_reference

\* C16: writes fail closed.  A submitBookingRequest that ends at its room
\* lookup or at its insert returns success=false with a message and no id; it
\* has written no row (no partial one either) and dispatched no e-mail, in
\* that step or in the lookup step before it.
C16_SubmitFailsClosed ==
    [][ \A p \in Procs :
          /\ (pc[p] \in {"s_room", "s_insert"} /\ pc'[p] = "done")
             => /\ ~ret'[p].success
                /\ ret'[p].error # ""
                /\ ret'[p].booking_id = 0
                /\ loc[p].bookingId = 0
                /\ bookings' = bookings
                /\ outbox' = outbox
          /\ (pc[p] = "list" /\ pc'[p] = "s_room")
             => (bookings' = bookings /\ outbox' = outbox)
          /\ (pc[p] = "s_room" /\ pc'[p] = "s_insert")
             => (bookings' = bookings /\ outbox' = outbox) ]_vars

\* The first submission has failed at its insert: the table is empty and no
\* e-mail has been dispatched.
C16_InsertFailedNothingWritten ==
    \E p \in Procs :
        /\ pc[p] = "done"
        /\ ret[p] = Fail("Failed to submit booking request")
        /\ bookings = << >>
        /\ outbox = {}

\* C17: a verification e-mail that could not be sent does not undo the
\* submission.  The step in which sendVerificationEmail resolves, sent or not,
\* leaves every row as it was and returns success with the row's id; and a
\* verification e-mail is dispatched in that one step only, so nothing sends
\* it again once the call has returned.
C17_MailFailureKeepsRow ==
    [][ /\ \A p \in Procs :
             (pc[p] = "s_mail" /\ pc'[p] # "s_mail")
             => /\ pc'[p] = "done"
                /\ bookings' = bookings
                /\ ret'[p] = Ok(loc[p].bookingId)
                /\ loc[p].bookingId \in DOMAIN bookings
                /\ outbox' \in {outbox, outbox \cup {VerificationEmail(p, loc[p])}}
        /\ \A e \in Verifications(outbox') \ Verifications(outbox) :
             pc[e.by] = "s_mail" /\ pc'[e.by] = "done"
        /\ \A p \in Procs :
             (pc'[p] = "s_mail" /\ pc[p] # "s_mail") => pc[p] = "s_insert" ]_vars

\* A submission has returned success though its verification e-mail was not
\* sent: the row is in the table, pending/pending, and the outbox is empty.
C17_RowWithoutMail ==
    \E p \in Procs :
        /\ pc[p] = "done"
        /\ ret[p].success
        /\ ret[p].booking_id \in DOMAIN bookings
        /\ bookings[ret[p].booking_id].status = "pending"
        /\ bookings[ret[p].booking_id].verification_status = "pending"
        /\ bookings[ret[p].booking_id].verification_code = loc[p].verification_code
        /\ outbox = {}

\* The awaits of verifyBookingCode.
VerifyAwaits == {"v_fetch", "v_update", "v_refetch", "v_mail"}

\* C18: submitBookingRequest and verifyBookingCode never raise.  At each of
\* their awaits every outcome of the database call (data, error, thrown
\* exception) and of the e-mail call (sent or not) is taken, and the step
\* leads to the next await or to a resolved {success, error}; every resolved
\* value with success=false carries a message.
C18_NeverRaises ==
    [][ \A p \in Procs :
          /\ pc[p] = "s_room" => \A o \in DbOutcomes : ENABLED SubmitRoomLookup(p, o)
          /\ pc[p] = "s_insert" => \A o \in DbOutcomes : ENABLED SubmitInsert(p, o)
          /\ pc[p] = "s_mail" => \A m \in BOOLEAN : ENABLED SubmitMail(p, m)
          /\ pc[p] = "v_fetch" => \A o \in DbOutcomes : ENABLED VerifyFetch(p, o)
          /\ pc[p] = "v_update" => \A o \in DbOutcomes : ENABLED VerifyUpdate(p, o)
          /\ pc[p] = "v_refetch" => \A o \in DbOutcomes : ENABLED VerifyRefetch(p, o)
          /\ pc[p] = "v_mail" => \A m \in BOOLEAN : ENABLED VerifyMail(p, m)
          /\ (pc[p] \in SubmitAwaits /\ pc'[p] # pc[p])
             => pc'[p] \in SubmitAwaits \cup {"done"}
          /\ (pc[p] \in VerifyAwaits /\ pc'[p] # pc[p])
             => pc'[p] \in VerifyAwaits \cup {"done"}
          /\ (pc[p] # "done" /\ pc'[p] = "done")
             => /\ ret'[p].success \in BOOLEAN
                /\ ret'[p].success => ret'[p].error = ""
                /\ ~ret'[p].success => ret'[p].error # "" ]_vars

\* A verifyBookingCode whose re-read of the row threw, after its update was
\* applied, has resolved to success=false with the exception's message.
C18_ThrownBecomesError ==
    \E p \in Procs :
        /\ pc[p] = "done"
        /\ ret[p] = Fail(ThrownMessage)
        /\ loc[p].bookingId \in DOMAIN bookings
        /\ bookings[loc[p].bookingId].verification_status = "verified"

\* C19: isPastTime(date, time) is true exactly when date and time, read as US
\* Eastern wall-clock time, are at or before the current Eastern wall-clock
\* time (the current minute counts as past), also on the days the clocks
\* change.
C19_PastIffAtOrBeforeEastern ==
    \A z \in Zones :
        pastTime[z].asked
        => (pastTime[z].past
             <=> WallOf(search.selectedDate, search.selectedTime)
                   <= ToWall(search.instant, "America/New_York"))

\* C20: isPastTime depends on its two arguments and the current instant only:
\* for one search at one instant it answers the same on machines of different
\* time zone settings.
C20_SameAnswerOnEveryMachine ==
    \A y, z \in Zones :
        (pastTime[y].asked /\ pastTime[z].asked) => pastTime[y].past = pastTime[z].past

\* The calls of verifyBookingCode that returned success for booking i (a
\* submission's locals hold a room, a verification's do not).
VerifiedFor(i) ==
    { p \in Procs : /\ pc[p] = "done"
                    /\ loc[p].room_id = 0
                    /\ loc[p].bookingId = i
                    /\ ret[p].success }

\* C25: whatever the interleaving of two or more verifyBookingCode calls on
\* one booking with its correct code, at most one of them returns success and
\* at most one confirmation e-mail goes out for that booking.
C25_OneVerificationWins ==
    \A i \in DOMAIN bookings :
        /\ Cardinality(VerifiedFor(i)) <= 1
        /\ Cardinality({ e \in Confirmations(outbox) :
                            \E p \in VerifiedFor(i) : e.by = p }) <= 1

\* C29: when several qualifying bookings overlap the interval asked about, the
\* conflict reported is the one that starts first, in whatever order the
\* database returns the rows.
C29_EarliestConflictReported ==
    \A roomId \in Rooms, sel \in Selections :
        \A res \in CheckRoomConflicts(bookings, roomId, sel, "ok") :
            res.status = "conflict"
            => \A i \in ConflictingBookings(bookings, roomId, sel) :
                  res.conflict_details.conflicting_booking.start_time
                      <= bookings[i].start_time

\* C30: the defaults getCurrentTimeDefaults gives are among the options the
\* form offers (hour 08 to 22, minute 00, 15, 30 or 45) and lie in the future:
\* Search pressed on the untouched form, on the machine that rendered it, is
\* never answered with the past-time rejection, at whatever hour and minute.
C30_DefaultsSelectableAndFuture ==
    \A z \in Zones :
        search.defaultsOf = z
        => /\ search.selectedTime[1] \in 8..22
           /\ search.selectedTime[2] \in {0, 15, 30, 45}
           /\ pastTime[z].asked => ~pastTime[z].past

\* C23: the booking reference produced by generateConfirmationCode is always
\* exactly eight characters long, each an upper-case letter or a digit,
\* whatever value Math.random() returns.
C23_ReferenceEightCharacters ==
    \A i \in DOMAIN bookings :
        /\ Len(bookings[i].booking_reference) = 8
        /\ \A n \in 1..Len(bookings[i].booking_reference) :
              \E j \in 1..36 : UpperCaseDigits[j] = bookings[i].booking_reference[n]

\* C21: every booking row written has start_time < end_time and
\* duration_minutes = end_time - start_time, whatever hour (08 to 22), minute
\* and duration the search form was set to and whatever start and end were
\* picked in BookingModal.
C21_RowTimesWellFormed ==
    \A i \in DOMAIN bookings :
        /\ bookings[i].start_time < bookings[i].end_time
        /\ bookings[i].duration_minutes = bookings[i].end_time - bookings[i].start_time

\* The <<year, month, day>> a date string splits into.
DateFields(str) ==
    CHOOSE d \in SearchDates \cup {<<2025, 6, 2>>, <<2025, 1, 1>>} : DateString(d) = str

\* isPastTime, at the page's instant, of the time a selection starts at.
PastSelection(date, startTime) ==
    IsPastTime(DateFields(date), <<startTime \div 60, startTime % 60>>,
               search.instant, PageZone)

\* The selection the form is set to.
FormSelection ==
    TimeSelection(DateString(search.selectedDate),
                  60 * search.selectedTime[1] + search.selectedTime[2], search.duration)

\* C22: a time in the past is rejected before any I/O.  A handleSearch on a
\* form whose date and time isPastTime calls past adds the past-time error
\* notification and changes nothing else: timeSelection stays, no conflict
\* query is issued, no call starts.  timeSelection only ever becomes the
\* form's selection, which is then not past, and every conflict check and
\* every submission started from the page carries the page's timeSelection:
\* none is made for the rejected selection.
C22_PastTimeRejectedBeforeIO ==
    [][ /\ ui'.notifications # ui.notifications
           => /\ PastSelection(FormSelection.date, FormSelection.start_time)
              /\ ui' = [ui EXCEPT !.notifications = @ + 1]
              /\ UNCHANGED <<bookings, outbox, pc, loc, ret>>
        /\ ui'.timeSelection # ui.timeSelection
           => /\ ~PastSelection(FormSelection.date, FormSelection.start_time)
              /\ ui'.timeSelection = FormSelection
        /\ \A p \in Procs :
              (pc[p] = "idle" /\ pc'[p] \in {"c_wait", "s_room"})
              => /\ TimeSelectionOf(loc'[p]) = ui'.timeSelection
                 /\ ~PastSelection(loc'[p].date, loc'[p].start_time) ]_vars

\* The user searched 09:15, which was accepted, then set the form to 08:00
\* and searched again: the notification is up, timeSelection is still the
\* 09:15 one.
C22_PastSearchRejected ==
    /\ ui.notifications = 1
    /\ PastSelection(FormSelection.date, FormSelection.start_time)
    /\ ui.timeSelection # NoSelection
    /\ ui.timeSelection # FormSelection

\* A refreshConflicts run starts on task p in the step.
RefreshStarts(p) == pc[p] = "idle" /\ pc'[p] = "c_wait"

\* The modal is closed in the step.
ModalCloses == ui.selectedRoom # 0 /\ ui'.selectedRoom = 0

\* C24: the refresh after a booking is the user's doing.  refreshConflicts
\* runs either as the effect of a new timeSelection (a search) or because
\* RoomBookingModal was closed in its confirmed step, and then with the list's
\* timeSelection; reaching the confirmed step starts none, and closing the
\* modal in the form or the verification step starts none.
C24_RefreshOnlyOnConfirmedClose ==
    [][ /\ (\E p \in Procs : RefreshStarts(p))
           => \/ /\ ui.selectedRoom = 0 /\ ui'.selectedRoom = 0
                 /\ ui'.timeSelection = FormSelection
                 /\ ui'.refreshCause = "effect"
              \/ /\ ModalCloses
                 /\ ui.currentStep = "confirmed"
                 /\ ui'.refreshCause = "onSuccess"
        /\ (ui.currentStep # "confirmed" /\ ui'.currentStep = "confirmed")
           => ~\E p \in Procs : RefreshStarts(p)
        /\ (ModalCloses /\ ui.currentStep \in {"form", "verification"})
           => /\ ~\E p \in Procs : RefreshStarts(p)
              /\ ui'.refreshCause = ui.refreshCause
        /\ (ModalCloses /\ ui.currentStep = "confirmed")
           => \E p \in Procs : /\ RefreshStarts(p)
                               /\ TimeSelectionOf(loc'[p]) = ui.timeSelection ]_vars

\* The booking was verified, the user closed the confirmation, and the
\* refresh this started is in flight.
C24_ClosedAfterConfirmation ==
    /\ ui.selectedRoom = 0
    /\ ui.refreshCause = "onSuccess"
    /\ \E i \in DOMAIN bookings : bookings[i].verification_status = "verified"
    /\ \E p \in Procs : pc[p] = "c_wait" /\ TimeSelectionOf(loc[p]) = ui.timeSelection

StepRank(step) ==
    CASE step = "form" -> 1 [] step = "verification" -> 2 [] step = "confirmed" -> 3

\* C26: while RoomBookingModal is open its step only moves forward: from form
\* to verification only when submitBookingRequest returned success, from
\* verification to confirmed only when verifyBookingCode returned success,
\* and never back to an earlier step.
C26_StepOnlyForward ==
    [][ (ui.selectedRoom # 0 /\ ui'.selectedRoom # 0 /\ ui'.currentStep # ui.currentStep)
        => /\ StepRank(ui'.currentStep) = StepRank(ui.currentStep) + 1
           /\ \E p \in Procs :
                 /\ ui.modalTask = p
                 /\ pc[p] = "done"
                 /\ ret[p].success
                 /\ loc[p].room_id # 0 <=> ui.currentStep = "form" ]_vars

\* C27: a submission that failed is never presented as a success: when the
\* call of RoomBookingModal resolves with success=false the modal stays in the
\* form step with the submit error, and when the call of BookingModal does,
\* onSuccess is not called (no success alert).
C27_FailureNotShownAsSuccess ==
    [][ \A p \in Procs :
           (pc[p] = "done" /\ pc'[p] = "idle" /\ loc[p].room_id # 0 /\ ~ret[p].success)
           => /\ ui'.alert # SuccessAlert
              /\ ui.modalTask = p
                 => /\ ui'.currentStep = "form"
                    /\ ui'.submitError = SubmitErrorMessage ]_vars

\* C28: when the time selection changes while an earlier conflict check is in
\* flight, the statuses shown once the checks are over are those of the
\* latest time selection.
C28_LatestSelectionShown ==
    (/\ ui.timeSelection # NoSelection
     /\ \A p \in Procs : pc[p] \notin {"c_wait", "list"})
    => ui.statusesFor = ui.timeSelection

====
